---- MODULE Spec2Model ----
(***************************************************************************)
(* Model of the issue-fixing agent script in its three revisions:          *)
(*   "agent" = src/scripts/agent.js   (unified-diff repair, K = 3)         *)
(*   "p0"    = src/unnamed/part_000   (full-file repair, K = 3)            *)
(*   "p1"    = src/unnamed/part_001   (heuristic only, K = 2)              *)
(* Strings whose characters matter (file names, file contents) are         *)
(* sequences: file names are sequences of characters, file contents and    *)
(* model texts are sequences of lexical tokens.                            *)
(***************************************************************************)
EXTENDS Integers, Sequences, FiniteSets, TLC

VARIABLES
    rev,          \* which revision of the script runs
    env,          \* process.env and the answers of the issue tracker
    pc,           \* the position in main()
    k,            \* the ordinal of the current attempt
    ok,           \* the variable ok of main()
    issueNumber,  \* the variable issueNumber of main(), 0 before it is set
    base,         \* the working tree of the default branch
    tree,         \* the working tree: path -> content
    log,          \* the calls made and lines logged by this invocation
    writes,       \* the file writes of this invocation, in order
    testOutput,   \* what the last runCapture / readRepoContext captured
    response,     \* the text the last callClaude returned
    head,         \* the commit the local branch points to
    remote,       \* the branches of origin: issue -> commit
    prs,          \* the issues whose branch has a pull request
    prCreated,    \* issue -> number of successful `gh pr create`
    outcome,      \* how the invocation ended
    err,          \* the error main() ended with
    runs          \* the number of invocations so far

vars == <<rev, env, pc, k, ok, issueNumber, base, tree, log, writes, testOutput,
          response, head, remote, prs, prCreated, outcome, err, runs>>

(***************************************************************************)
(* Bounds                                                                  *)
(***************************************************************************)
MaxRuns == 2
MaxLen == 4
MaxResp == 6
MaxDiff == 4
MaxExt == 2
MaxFiles == 2

Revs == {"agent", "p0", "p1"}
IssueIds == {1, 2}

(***************************************************************************)
(* String primitives of the JavaScript runtime, on sequences.              *)
(***************************************************************************)
StartsAt(s, i, pat) ==
    /\ i >= 1
    /\ i + Len(pat) - 1 <= Len(s)
    /\ \A j \in 1..Len(pat) : s[i + j - 1] = pat[j]

\* String.prototype.indexOf: 0 when pat does not occur, else first position
IndexOf(s, pat) ==
    IF \E i \in 1..Len(s) : StartsAt(s, i, pat)
    THEN CHOOSE i \in 1..Len(s) :
            /\ StartsAt(s, i, pat)
            /\ \A j \in 1..(i - 1) : ~StartsAt(s, j, pat)
    ELSE 0

Includes(s, pat) == IndexOf(s, pat) # 0

EndsWith(s, suf) ==
    /\ Len(suf) <= Len(s)
    /\ StartsAt(s, Len(s) - Len(suf) + 1, suf)

\* String.prototype.replace with a string pattern: first occurrence only
ReplaceFirst(s, pat, rep) ==
    LET i == IndexOf(s, pat) IN
    IF i = 0 THEN s
    ELSE SubSeq(s, 1, i - 1) \o rep \o SubSeq(s, i + Len(pat), Len(s))

\* all sequences over S of length at most n
SeqsUpTo(S, n) == UNION {[1..m -> S] : m \in 0..n}

Put(f, p, c) == [q \in DOMAIN f \cup {p} |-> IF q = p THEN c ELSE f[q]]

(***************************************************************************)
(* Paths.  A path is [dir, name]; name is the sequence of its characters.  *)
(***************************************************************************)
Ext_js == <<".", "j", "s">>
Ext_test_js == <<".", "t", "e", "s", "t", ".", "j", "s">>
utils_js == <<"u", "t", "i", "l", "s", ".", "j", "s">>
utils_test_js == <<"u", "t", "i", "l", "s", ".", "t", "e", "s", "t", ".", "j", "s">>
int_js == <<"i", "n", "t", ".", "j", "s">>
package_json == <<"p", "a", "c", "k", "a", "g", "e", ".", "j", "s", "o", "n">>
agent_payload_json == <<"a", "g", "e", "n", "t", "_", "p", "a", "y", "l", "o", "a", "d",
                        ".", "j", "s", "o", "n">>
agent_patch == <<"a", "g", "e", "n", "t", ".", "p", "a", "t", "c", "h">>
new_js == <<"n", "e", "w", ".", "j", "s">>
Ext_rej == <<".", "r", "e", "j">>

TestPath(n) == [dir |-> "test", name |-> n]
RootPath(n) == [dir |-> "", name |-> n]

target == TestPath(utils_js)
testPath == TestPath(utils_test_js)
payloadPath == RootPath(agent_payload_json)
patchPath == RootPath(agent_patch)
packagePath == RootPath(package_json)

\* fs.existsSync(path)
existsSync(t, p) == p \in DOMAIN t

\* fs.readdirSync("test"): the names of the entries of test/
readdirSync(t) == {p.name : p \in {q \in DOMAIN t : q.dir = "test"}}

EmptyTree == [p \in {} |-> <<>>]

(***************************************************************************)
(* File contents are sequences of tokens:                                  *)
(*   "S" = `export function sub`   "A" = `(a, b) {`                        *)
(*   "P" = `return a + b`          "M" = `return a - b`                    *)
(*   "E" = `; }`   "}" = itself    "\r" "\n" = CR, LF                      *)
(*   "x" = any other text without these and without white space            *)
(***************************************************************************)
Tok == {"S", "A", "P", "M", "E", "}", "\r", "\n", "x"}
Ws == {"\r", "\n"}

\* src.split(/\r?\n/): at least one line; a CR right before the LF is dropped
RECURSIVE SplitLines(_)
SplitLines(src) ==
    LET i == IndexOf(src, <<"\n">>) IN
    IF i = 0 THEN <<src>>
    ELSE LET e == IF i > 1 /\ src[i - 1] = "\r" THEN i - 2 ELSE i - 1
         IN <<SubSeq(src, 1, e)>> \o SplitLines(SubSeq(src, i + 1, Len(src)))

\* lines.join("\n")
RECURSIVE JoinLF(_)
JoinLF(lines) ==
    IF Len(lines) = 0 THEN <<>>
    ELSE IF Len(lines) = 1 THEN lines[1]
    ELSE lines[1] \o <<"\n">> \o JoinLF(Tail(lines))

\* the test on one line in the loop of the line-based heuristic
LineMatches(line) == Includes(line, <<"S">>) /\ Includes(line, <<"P">>)

FixLine(line) ==
    IF LineMatches(line) THEN ReplaceFirst(line, <<"P">>, <<"M">>) ELSE line

\* mutant of FixLines: the file is written back whether or not a line matched
FixLines_alwaysChanged(src) ==
    LET lines == SplitLines(src)
        fixed == [i \in 1..Len(lines) |-> FixLine(lines[i])]
    IN [changed |-> TRUE, out |-> JoinLF(fixed)]

\* line-based heuristic (agent.js, part_000): what is written, if anything
FixLines(src) ==
    LET lines == SplitLines(src)
        fixed == [i \in 1..Len(lines) |-> FixLine(lines[i])]
    IN [changed |-> \E i \in 1..Len(lines) : LineMatches(lines[i]),
        out |-> JoinLF(fixed)]

\* /\s*/ from position i: the first position that holds no white space
RECURSIVE SkipWs(_, _)
SkipWs(s, i) == IF i <= Len(s) /\ s[i] \in Ws THEN SkipWs(s, i + 1) ELSE i

\* the regular expression of part_001 matched at position i: 0 when it does
\* not match there, else the position after the match
RECURSIVE MatchSeq(_, _, _)
MatchSeq(s, i, pat) ==
    IF Len(pat) = 0 THEN i
    ELSE LET j == SkipWs(s, i) IN
         IF j <= Len(s) /\ s[j] = Head(pat)
         THEN MatchSeq(s, j + 1, Tail(pat))
         ELSE 0

SubRegexAt(s, i) ==
    IF i <= Len(s) /\ s[i] = "S"
    THEN MatchSeq(s, i + 1, <<"A", "P", "E">>)
    ELSE 0

\* src.replace(/.../g, "export function sub(a, b) { return a - b }")
RECURSIVE ReplaceAllSub(_, _)
ReplaceAllSub(s, i) ==
    IF i > Len(s) THEN <<>>
    ELSE LET e == SubRegexAt(s, i) IN
         IF e # 0 THEN <<"S", "A", "M", "}">> \o ReplaceAllSub(s, e)
         ELSE <<s[i]>> \o ReplaceAllSub(s, i + 1)

\* regex heuristic (part_001)
FixRegex(src) ==
    LET fixed == ReplaceAllSub(src, 1)
    IN [changed |-> fixed # src, out |-> fixed]

(***************************************************************************)
(* Model responses.  A response is a sequence of lexical items             *)
(*   hdr   = `=== FILE: <path> ===` with its line feed                     *)
(*   end   = the line feed and `=== END ===`                               *)
(*   open  = the fence "```diff",   close = the fence "```"                *)
(*   hunk  = the diff of one existing file; flag: its context matches      *)
(*   newfile = the diff that creates the file at path                      *)
(*   text  = any other text                                                *)
(* text is what the item contributes when it is file content.              *)
(***************************************************************************)
NoPath == [dir |-> "", name |-> <<>>]
Item(kd, p, f, tx) == [kind |-> kd, path |-> p, flag |-> f, text |-> tx]
Hdr(p) == Item("hdr", p, TRUE, <<"x">>)
End == Item("end", NoPath, TRUE, <<"x">>)
Open == Item("open", NoPath, TRUE, <<"x">>)
Close == Item("close", NoPath, TRUE, <<"x">>)
Text(tx) == Item("text", NoPath, TRUE, tx)
Hunk(p, f, tx) == Item("hunk", p, f, tx)
NewFile(p, tx) == Item("newfile", p, TRUE, tx)

\* first position >= i of an item of kind kd, 0 when there is none
FirstKind(resp, i, kd) ==
    IF \E j \in i..Len(resp) : resp[j].kind = kd
    THEN CHOOSE j \in i..Len(resp) :
            /\ resp[j].kind = kd
            /\ \A l \in i..(j - 1) : resp[l].kind # kd
    ELSE 0

RECURSIVE Render(_)
Render(items) ==
    IF Len(items) = 0 THEN <<>> ELSE Head(items).text \o Render(Tail(items))

\* the matches of /===\s*FILE:\s*(.+?)\s*===\n([\s\S]*?)\n===\s*END\s*===/g
\* from position i on: the content runs to the first end marker
RECURSIVE ParseBlocks(_, _)
ParseBlocks(resp, i) ==
    LET h == FirstKind(resp, i, "hdr")
        e == IF h = 0 THEN 0 ELSE FirstKind(resp, h + 1, "end")
    IN IF h = 0 \/ e = 0 THEN <<>>
       ELSE <<[path |-> resp[h].path,
               content |-> Render(SubSeq(resp, h + 1, e - 1))]>>
            \o ParseBlocks(resp, e + 1)

\* mutant of WriteBlocks: an unknown path ends the loop instead of being
\* skipped
RECURSIVE WriteBlocks_stopsAtUnknown(_, _)
WriteBlocks_stopsAtUnknown(t, blocks) ==
    IF Len(blocks) = 0
    THEN [tree |-> t, writes |-> <<>>, log |-> <<>>, applied |-> FALSE]
    ELSE LET b == Head(blocks) IN
         IF ~existsSync(t, b.path)
         THEN [tree |-> t, writes |-> <<>>, log |-> <<"Skipping unknown file">>,
               applied |-> FALSE]
         ELSE LET c == b.content \o <<"\n">>
                  r == WriteBlocks_stopsAtUnknown(Put(t, b.path, c), Tail(blocks))
              IN [r EXCEPT !.writes = <<[path |-> b.path, content |-> c]>> \o @,
                           !.log = <<"Rewrote">> \o @,
                           !.applied = TRUE]

\* the while loop of applyFixedFiles over the matches
RECURSIVE WriteBlocks(_, _)
WriteBlocks(t, blocks) ==
    IF Len(blocks) = 0
    THEN [tree |-> t, writes |-> <<>>, log |-> <<>>, applied |-> FALSE]
    ELSE LET b == Head(blocks) IN
         IF ~existsSync(t, b.path)
         THEN LET r == WriteBlocks(t, Tail(blocks))
              IN [r EXCEPT !.log = <<"Skipping unknown file">> \o @]
         ELSE LET c == b.content \o <<"\n">>
                  r == WriteBlocks(Put(t, b.path, c), Tail(blocks))
              IN [r EXCEPT !.writes = <<[path |-> b.path, content |-> c]>> \o @,
                           !.log = <<"Rewrote">> \o @,
                           !.applied = TRUE]

\* applyFixedFiles(response) of part_000
applyFixedFiles(t, resp) ==
    LET r == WriteBlocks(t, ParseBlocks(resp, 1))
    IN [tree |-> r.tree, writes |-> r.writes, log |-> r.log,
        threw |-> ~r.applied,
        err |-> IF r.applied THEN "none" ELSE "ParseError",
        carriesRaw |-> ~r.applied]

\* diffText.match(/```diff\s*([\s\S]*?)```/): the items of the first fenced
\* block, or the whole text when there is no fenced block
ExtractPatch(resp) ==
    LET o == FirstKind(resp, 1, "open")
        c == IF o = 0 THEN 0 ELSE FirstKind(resp, o + 1, "close")
    IN IF o = 0 \/ c = 0 THEN resp ELSE SubSeq(resp, o + 1, c - 1)

IsDiff(it) == it.kind \in {"hunk", "newfile"}

\* git apply --reject on the diffs of the patch, in order: a diff whose
\* context matches is applied, another one leaves a .rej file
RECURSIVE GitApplyReject(_, _)
GitApplyReject(t, patch) ==
    IF Len(patch) = 0
    THEN [tree |-> t, writes |-> <<>>, rejected |-> FALSE, seen |-> FALSE]
    ELSE LET it == Head(patch) IN
         IF ~IsDiff(it) THEN GitApplyReject(t, Tail(patch))
         ELSE LET good == IF it.kind = "newfile" THEN ~existsSync(t, it.path)
                          ELSE existsSync(t, it.path) /\ it.flag
                  p == IF good THEN it.path
                       ELSE [dir |-> it.path.dir, name |-> it.path.name \o Ext_rej]
                  r == GitApplyReject(Put(t, p, it.text), Tail(patch))
              IN [r EXCEPT !.writes = <<[path |-> p, content |-> it.text]>> \o @,
                           !.rejected = @ \/ ~good,
                           !.seen = TRUE]

\* applyUnifiedDiff(diffText) of agent.js
applyUnifiedDiff(t, resp) ==
    LET patch == ExtractPatch(resp)
        c == Render(patch) \o <<"\n">>
        t1 == Put(t, patchPath, c)
        r == GitApplyReject(t1, patch)
        failed == r.rejected \/ ~r.seen
    IN [tree |-> r.tree,
        writes |-> <<[path |-> patchPath, content |-> c]>> \o r.writes,
        log |-> <<"git apply">>,
        threw |-> failed,
        err |-> IF failed THEN "CommandFailed" ELSE "none",
        carriesRaw |-> FALSE]

(***************************************************************************)
(* ensureTestsFirst                                                        *)
(***************************************************************************)
Template == <<"x", "\n">>

\* ensureTestsFirst() of agent.js and part_001
ensureTestsFixed(t) ==
    IF existsSync(t, testPath)
    THEN [tree |-> t, writes |-> <<>>, log |-> <<"Tests already exist.">>,
          threw |-> FALSE, err |-> "none"]
    ELSE [tree |-> Put(t, testPath, Template),
          writes |-> <<[path |-> testPath, content |-> Template]>>,
          log |-> <<"Creating tests first...">>,
          threw |-> FALSE, err |-> "none"]

\* part_000: the files of test/ that are sources, and those without a test
sourceFiles(t) ==
    {f \in readdirSync(t) : EndsWith(f, Ext_js) /\ ~EndsWith(f, Ext_test_js)}

testFileOf(f) == ReplaceFirst(f, Ext_js, Ext_test_js)

missingTests(t) ==
    {f \in sourceFiles(t) : ~existsSync(t, TestPath(testFileOf(f)))}

\* callClaude up to the request: requireEnv, then the payload file
Payload == <<"x">>

\* mutant of callClaudeWrites: the key is looked up after the payload is written
callClaudeWrites_checksKeyLate(t, apiKey) ==
    [tree |-> Put(t, payloadPath, Payload),
     writes |-> <<[path |-> payloadPath, content |-> Payload]>>,
     threw |-> ~apiKey]

callClaudeWrites(t, apiKey) ==
    IF apiKey
    THEN [tree |-> Put(t, payloadPath, Payload),
          writes |-> <<[path |-> payloadPath, content |-> Payload]>>,
          threw |-> FALSE]
    ELSE [tree |-> t, writes |-> <<>>, threw |-> TRUE]

\* the loop of ensureTestsFirst of part_000 over order, a listing of the
\* missing tests; the first n calls of callClaude return text, the next fails
RECURSIVE GenerateTests(_, _, _, _)
GenerateTests(t, order, n, apiKey) ==
    IF Len(order) = 0
    THEN [tree |-> t, writes |-> <<>>, log |-> <<>>, threw |-> FALSE, err |-> "none"]
    ELSE LET c == callClaudeWrites(t, apiKey) IN
         IF c.threw
         THEN [tree |-> c.tree, writes |-> c.writes, log |-> <<"callClaude">>,
               threw |-> TRUE, err |-> "MissingEnv"]
         ELSE IF n = 0
         THEN [tree |-> c.tree, writes |-> c.writes, log |-> <<"callClaude">>,
               threw |-> TRUE, err |-> "ApiError"]
         ELSE LET tp == TestPath(testFileOf(Head(order)))
                  r == GenerateTests(Put(c.tree, tp, Template), Tail(order),
                                     n - 1, apiKey)
              IN [r EXCEPT !.writes = c.writes
                                \o <<[path |-> tp, content |-> Template]>> \o @,
                           !.log = <<"callClaude", "Tests written">> \o @]

\* the listings of a finite set
Listings(S) ==
    {o \in [1..Cardinality(S) -> S] : \A i, j \in DOMAIN o : i # j => o[i] # o[j]}

\* ensureTestsFirst(issue) of part_000
ensureTestsGenerated(t, order, n, apiKey) ==
    IF readdirSync(t) = {}
    THEN [tree |-> t, writes |-> <<>>, log |-> <<"No test/ directory found">>,
          threw |-> FALSE, err |-> "none"]
    ELSE IF missingTests(t) = {}
    THEN [tree |-> t, writes |-> <<>>,
          log |-> <<"All source files already have tests.">>,
          threw |-> FALSE, err |-> "none"]
    ELSE GenerateTests(t, order, n, apiKey)

(***************************************************************************)
(* The inputs of an invocation                                             *)
(***************************************************************************)
Labelled == {<<>>, <<1>>, <<2, 1>>}

\* the texts of an issue (title and body); the whole pipeline is run on the
\* first, the heuristic, the one function handed the text, on both
IssueTexts == {"t1", "t2"}

Envs == [ISSUE_NUMBER : {0} \cup IssueIds, labelled : Labelled,
         apiKey : BOOLEAN, issueText : {"t1"}]

Buggy == <<"S", "A", "P", "E">>
BuggyLF == Buggy \o <<"\n", "x", "\n">>
BuggyCRLF == <<"x", "\r", "\n">> \o Buggy \o <<"\r", "\n">>
Clean == <<"x", "\n">>

BaseTrees ==
    { [p \in {target, testPath, packagePath} |->
          IF p = target THEN BuggyLF ELSE <<"x", "\n">>],
      [p \in {target, testPath, packagePath} |-> Clean],
      [p \in {target, packagePath} |->
          IF p = target THEN BuggyCRLF ELSE <<"x", "\n">>],
      [p \in {packagePath} |-> <<"x", "\n">>],
      [p \in {TestPath(int_js), packagePath} |-> <<"x", "\n">>],
      [p \in {target, testPath, TestPath(int_js), packagePath} |->
          IF p = target THEN BuggyLF ELSE <<"x", "\n">>] }

\* the texts callClaude may return in the pipeline (never the empty text)
Fixed == <<"S", "A", "M", "}">>
Responses ==
    { <<Text(<<"x">>)>>,
      <<Hdr(target), Text(Fixed), End>>,
      <<Hdr(TestPath(new_js)), Text(<<"x">>), End, Hdr(target), Text(Fixed), End>>,
      <<Hdr(TestPath(new_js)), Text(<<"x">>), End>>,
      <<Open, Hunk(target, TRUE, Fixed), Close>>,
      <<Hunk(target, TRUE, Fixed)>>,
      <<Open, Hunk(target, TRUE, Fixed), Hunk(testPath, FALSE, <<"x">>), Close>>,
      <<Open, NewFile(TestPath(new_js), <<"x">>), Close>> }

NoCommit == [commit |-> -1, tree |-> EmptyTree]
NoOutput == [passed |-> FALSE, at |-> 0, context |-> EmptyTree]

\* mutant of AttemptBudget: one more model-backed attempt
AttemptBudget_oneMore(r) == IF r = "p1" THEN 2 ELSE 4

\* K: the number of attempts main() makes
AttemptBudget(r) == IF r = "p1" THEN 2 ELSE 3

branchName(num) == num

Tag(ws, who) ==
    [i \in 1..Len(ws) |-> [path |-> ws[i].path, content |-> ws[i].content, by |-> who]]

Init ==
    /\ rev \in Revs
    /\ env \in Envs
    /\ base \in BaseTrees
    /\ tree = base
    /\ pc = "main"
    /\ k = 0
    /\ ok = FALSE
    /\ issueNumber = 0
    /\ log = <<>>
    /\ writes = <<>>
    /\ testOutput = NoOutput
    /\ response = <<>>
    /\ head = NoCommit
    /\ remote = [i \in IssueIds |-> NoCommit]
    /\ prs = {}
    /\ prCreated = [i \in IssueIds |-> 0]
    /\ outcome = "running"
    /\ err = [kind |-> "none", carriesRaw |-> FALSE]
    /\ runs = 1

\* mutant of Throw: the exception is swallowed and main() returns
Throw_swallowed(kind, raw) ==
    /\ outcome' = "succeeded"
    /\ err' = [kind |-> kind, carriesRaw |-> raw]
    /\ pc' = "done"

\* an uncaught exception leaves main(): the process ends
Throw(kind, raw) ==
    /\ outcome' = "threw"
    /\ err' = [kind |-> kind, carriesRaw |-> raw]
    /\ pc' = "done"

\* mutant of stepAfter: the heuristic is called before the scaffolder
stepAfter_fixFirst(p) ==
    CASE p = "main" -> "attempt"
      [] p = "ensureTests" -> "test"
      [] p = "attempt" -> "ensureTests"
      [] p = "capture" -> "call"
      [] p = "call" -> "apply"
      [] p = "apply" -> "test"
      [] p = "publish" -> "openPR"
      [] OTHER -> "done"

\* mutant of stepAfter: main() returns after createBranchAndCommit
stepAfter_skipsOpenPR(p) ==
    CASE p = "main" -> "ensureTests"
      [] p = "ensureTests" -> "attempt"
      [] p = "attempt" -> "test"
      [] p = "capture" -> "call"
      [] p = "call" -> "apply"
      [] p = "apply" -> "test"
      [] OTHER -> "done"

\* the order of the calls in main(): the step that follows step p
stepAfter(p) ==
    CASE p = "main" -> "ensureTests"
      [] p = "ensureTests" -> "attempt"
      [] p = "attempt" -> "test"
      [] p = "capture" -> "call"
      [] p = "call" -> "apply"
      [] p = "apply" -> "test"
      [] p = "publish" -> "openPR"
      [] OTHER -> "done"

\* mutant of issuesOf: an empty scan falls back to issue 1
issuesOf_fallsBack(e) ==
    IF e.ISSUE_NUMBER # 0 THEN <<e.ISSUE_NUMBER>>
    ELSE IF e.labelled = <<>> THEN <<1>>
    ELSE e.labelled

\* the list main() builds: the issue of ISSUE_NUMBER when it is set (0: not
\* set), else the result of listOpenLabeledIssues
issuesOf(e) ==
    IF e.ISSUE_NUMBER # 0 THEN <<e.ISSUE_NUMBER>> ELSE e.labelled

\* mutant of firstOf: the last issue of the list is taken
firstOf_last(issues) == issues[Len(issues)]

\* const issueNumber = issues[0]
firstOf(issues) == issues[1]

\* main() up to the call of ensureTestsFirst: the issue is chosen and read,
\* the default branch is checked out
SelectIssue ==
    /\ pc = "main"
    /\ LET scan == env.ISSUE_NUMBER = 0
           issues == issuesOf(env)
           l0 == IF scan THEN <<"listOpenLabeledIssues">> ELSE <<>>
       IN IF Len(issues) = 0
          THEN /\ log' = log \o l0 \o <<"No open issues">>
               /\ outcome' = "noIssuesFound"
               /\ pc' = "done"
               /\ UNCHANGED <<issueNumber, head>>
          ELSE /\ issueNumber' = firstOf(issues)
               /\ log' = log \o l0 \o <<"readIssue", "git fetch origin",
                                         "git checkout main", "git pull">>
               /\ head' = [commit |-> 0, tree |-> base]
               /\ pc' = stepAfter("main")
               /\ UNCHANGED outcome
    /\ UNCHANGED <<rev, env, k, ok, base, tree, writes, testOutput, response,
                   remote, prs, prCreated, err, runs>>

\* ensureTestsFirst(...) as called from main()
EnsureTestsFirst ==
    /\ pc = "ensureTests"
    /\ \E order \in Listings(missingTests(tree)),
          n \in 0..Cardinality(missingTests(tree)) :
         LET r == IF rev = "p0"
                  THEN ensureTestsGenerated(tree, order, n, env.apiKey)
                  ELSE ensureTestsFixed(tree)
         IN /\ tree' = r.tree
            /\ writes' = writes \o Tag(r.writes, "ensureTestsFirst")
            /\ IF r.threw
               THEN /\ log' = log \o r.log \o <<"ensureTestsFirst:throw">>
                    /\ Throw(r.err, FALSE)
                    /\ UNCHANGED k
               ELSE /\ log' = log \o r.log \o <<"ensureTestsFirst:return">>
                    /\ pc' = stepAfter("ensureTests")
                    /\ k' = 1
                    /\ UNCHANGED <<outcome, err>>
    /\ UNCHANGED <<rev, env, ok, issueNumber, base, testOutput, response,
                   head, remote, prs, prCreated, runs>>

\* mutant of attemptFixFromIssueText: a missing target is reported as no match
attemptFixFromIssueText_toleratesMissing(r, t, issueText) ==
    IF ~existsSync(t, target)
    THEN [tree |-> t, writes |-> <<>>, log |-> <<"no-change">>, threw |-> FALSE,
          err |-> "none"]
    ELSE LET src == t[target]
             f == IF r = "p1" THEN FixRegex(src) ELSE FixLines(src)
         IN IF ~f.changed
            THEN [tree |-> t, writes |-> <<>>, log |-> <<"no-change">>,
                  threw |-> FALSE, err |-> "none"]
            ELSE [tree |-> Put(t, target, f.out),
                  writes |-> <<[path |-> target, content |-> f.out]>>,
                  log |-> <<"Applied fix to sub().">>,
                  threw |-> FALSE, err |-> "none"]

\* mutant of attemptFixFromIssueText: the fix is made only for issue text t1
attemptFixFromIssueText_readsIssue(r, t, issueText) ==
    IF ~existsSync(t, target)
    THEN [tree |-> t, writes |-> <<>>, log |-> <<>>, threw |-> TRUE,
          err |-> "MissingFile"]
    ELSE LET src == t[target]
             f == IF r = "p1" THEN FixRegex(src) ELSE FixLines(src)
         IN IF ~f.changed \/ issueText # "t1"
            THEN [tree |-> t, writes |-> <<>>, log |-> <<"no-change">>,
                  threw |-> FALSE, err |-> "none"]
            ELSE [tree |-> Put(t, target, f.out),
                  writes |-> <<[path |-> target, content |-> f.out]>>,
                  log |-> <<"Applied fix to sub().">>,
                  threw |-> FALSE, err |-> "none"]

\* attemptFixFromIssueText(issueText) on the working tree t
attemptFixFromIssueText(r, t, issueText) ==
    IF ~existsSync(t, target)
    THEN [tree |-> t, writes |-> <<>>, log |-> <<>>, threw |-> TRUE,
          err |-> "MissingFile"]
    ELSE LET src == t[target]
             f == IF r = "p1" THEN FixRegex(src) ELSE FixLines(src)
         IN IF ~f.changed
            THEN [tree |-> t, writes |-> <<>>, log |-> <<"no-change">>,
                  threw |-> FALSE, err |-> "none"]
            ELSE [tree |-> Put(t, target, f.out),
                  writes |-> <<[path |-> target, content |-> f.out]>>,
                  log |-> <<"Applied fix to sub().">>,
                  threw |-> FALSE, err |-> "none"]

\* the heuristic attempt of main(): attempt 1, and attempt 2 of part_001
AttemptFix ==
    /\ pc = "attempt"
    /\ LET r == attemptFixFromIssueText(rev, tree, env.issueText)
       IN /\ tree' = r.tree
          /\ writes' = writes \o Tag(r.writes, "attemptFix")
          /\ log' = log \o <<"attemptFix">> \o r.log
          /\ IF r.threw
             THEN Throw(r.err, FALSE)
             ELSE /\ pc' = stepAfter("attempt")
                  /\ UNCHANGED <<outcome, err>>
    /\ UNCHANGED <<rev, env, k, ok, issueNumber, base, testOutput, response,
                   head, remote, prs, prCreated, runs>>

\* mutants of AfterTest: a passing run still escalates; an exhausted budget
\* still publishes
AfterTest_escalatesOnPass(r, n, passed) ==
    IF n >= AttemptBudget(r) THEN (IF passed THEN "publish" ELSE "exhausted")
    ELSE IF r = "p1" THEN "attempt"
    ELSE "capture"

AfterTest_publishesOnExhaust(r, n, passed) ==
    IF passed \/ n >= AttemptBudget(r) THEN "publish"
    ELSE IF r = "p1" THEN "attempt"
    ELSE "capture"

\* mutant of AfterTest: the retry reuses the request inputs of attempt 2
AfterTest_skipsCapture(r, n, passed) ==
    IF passed THEN "publish"
    ELSE IF n >= AttemptBudget(r) THEN "exhausted"
    ELSE IF r = "p1" THEN "attempt"
    ELSE IF n >= 2 THEN "call"
    ELSE "capture"

\* mutant of AfterTest: the result of the last test run is not looked at
AfterTest_ignoresLastResult(r, n, passed) ==
    IF passed \/ n >= AttemptBudget(r) - 1 THEN "publish"
    ELSE IF r = "p1" THEN "attempt"
    ELSE "capture"

\* where main() goes after the test run of attempt n returned passed
AfterTest(r, n, passed) ==
    IF passed THEN "publish"
    ELSE IF n >= AttemptBudget(r) THEN "exhausted"
    ELSE IF r = "p1" THEN "attempt"
    ELSE "capture"

\* ok = testsPass() and the if (!ok) tests that follow it in main()
TestsPass ==
    /\ pc = "test"
    /\ \E passed \in BOOLEAN :
         LET next == AfterTest(rev, k, passed) IN
         /\ ok' = passed
         /\ log' = log \o <<IF passed THEN "testsPass:true" ELSE "testsPass:false">>
                       \o (IF next = "exhausted" THEN <<"throw">> ELSE <<>>)
         /\ IF next = "exhausted"
            THEN /\ Throw("Exhausted", FALSE)
                 /\ UNCHANGED k
            ELSE /\ pc' = next
                 /\ k' = IF passed THEN k ELSE k + 1
                 /\ UNCHANGED <<outcome, err>>
    /\ UNCHANGED <<rev, env, issueNumber, base, tree, writes, testOutput,
                   response, head, remote, prs, prCreated, runs>>

\* readRepoContext(): the files whose text goes into the request
readRepoContext(r, t) ==
    LET ps == IF r = "p0"
              THEN {p \in DOMAIN t : p.dir = "test" /\ EndsWith(p.name, Ext_js)}
                   \cup ({packagePath} \cap DOMAIN t)
              ELSE {target, testPath, packagePath} \cap DOMAIN t
    IN [p \in ps |-> t[p]]

\* testOutput = runCapture("npm test"); context = readRepoContext()
Capture ==
    /\ pc = "capture"
    /\ \E passed \in BOOLEAN :
         testOutput' = [passed |-> passed, at |-> Len(writes),
                        context |-> readRepoContext(rev, tree)]
    /\ log' = log \o <<"runCapture", "readRepoContext">>
    /\ pc' = stepAfter("capture")
    /\ UNCHANGED <<rev, env, k, ok, issueNumber, base, tree, writes, response,
                   head, remote, prs, prCreated, outcome, err, runs>>

\* callClaude(messages) as called from main()
CallClaude ==
    /\ pc = "call"
    /\ LET c == callClaudeWrites(tree, env.apiKey) IN
       /\ tree' = c.tree
       /\ writes' = writes \o Tag(c.writes, "callClaude")
       /\ log' = log \o <<"callClaude">>
       /\ IF c.threw
          THEN /\ Throw("MissingEnv", FALSE)
               /\ UNCHANGED response
          ELSE \/ /\ Throw("ApiError", FALSE)
                  /\ UNCHANGED response
               \/ /\ response' \in Responses
                  /\ pc' = stepAfter("call")
                  /\ UNCHANGED <<outcome, err>>
    /\ UNCHANGED <<rev, env, k, ok, issueNumber, base, testOutput, head,
                   remote, prs, prCreated, runs>>

\* applyUnifiedDiff(diff) in agent.js, applyFixedFiles(response) in part_000
applyResponse(r, t, resp) ==
    IF r = "p0" THEN applyFixedFiles(t, resp) ELSE applyUnifiedDiff(t, resp)

Apply ==
    /\ pc = "apply"
    /\ LET r == applyResponse(rev, tree, response) IN
       /\ tree' = r.tree
       /\ writes' = writes \o Tag(r.writes, "apply")
       /\ log' = log \o <<IF rev = "p0" THEN "applyFixedFiles" ELSE "applyUnifiedDiff">>
                     \o r.log
       /\ IF r.threw
          THEN Throw(r.err, r.carriesRaw)
          ELSE /\ pc' = stepAfter("apply")
               /\ UNCHANGED <<outcome, err>>
    /\ UNCHANGED <<rev, env, k, ok, issueNumber, base, testOutput, response,
                   head, remote, prs, prCreated, runs>>

\* git push of commit h to a branch of origin that holds commit r
\* (every commit the script makes is a child of the default branch)
FastForward(r, h) == r.commit \in {-1, 0} \/ r = h

\* the kind of push createBranchAndCommit runs
pushMode(rv) == IF rv = "p0" THEN "force-with-lease" ELSE "plain"

\* a push with a lease taken at the fetch of this run is accepted, the
\* branch not having moved since; a plain push must be a fast-forward
pushAccepted(rv, r, h) ==
    IF pushMode(rv) = "force-with-lease" THEN TRUE
    ELSE FastForward(r, h)

\* git commit fails when nothing is staged; only part_001 lets that escape
commitEscapes(rv) == rv = "p1"

\* createBranchAndCommit(num, title). git commit fails when nothing is staged,
\* and may fail for another reason (a hook, a lock, a missing identity) when
\* something is: commitOk. agent.js and part_000 catch every failure of it.
CreateBranchAndCommit ==
    /\ pc = "publish"
    /\ \E commitOk \in BOOLEAN :
         LET b == branchName(issueNumber)
             dirty == tree # head.tree
             committed == dirty /\ commitOk
             h == IF committed THEN [commit |-> runs, tree |-> tree] ELSE head
             l1 == <<"git checkout branch", "git add -A", "git commit">>
             l2 == IF committed THEN l1 ELSE l1 \o <<"git commit:failed">>
         IN /\ dirty \/ ~commitOk
            /\ IF ~committed /\ commitEscapes(rev)
               THEN /\ log' = log \o l2
                    /\ Throw("CommandFailed", FALSE)
                    /\ UNCHANGED <<head, remote>>
               ELSE /\ head' = h
                    /\ IF pushAccepted(rev, remote[b], h)
                       THEN /\ remote' = [remote EXCEPT ![b] = h]
                            /\ log' = log \o l2 \o <<"git push">>
                            /\ pc' = stepAfter("publish")
                            /\ UNCHANGED <<outcome, err>>
                       ELSE /\ log' = log \o l2 \o <<"git push">>
                            /\ Throw("CommandFailed", FALSE)
                            /\ UNCHANGED remote
    /\ UNCHANGED <<rev, env, k, ok, issueNumber, base, tree, writes, testOutput,
                   response, prs, prCreated, runs>>

\* openPR looks the pull request up first, except in part_001
looksUp(rv) == rv # "p1"

\* gh pr create succeeds when the branch has no pull request yet and has
\* commits the default branch lacks
createAccepted(b) == b \notin prs /\ remote[b].commit > 0

\* openPR(repo, num, title, branch)
OpenPR ==
    /\ pc = "openPR"
    /\ LET b == branchName(issueNumber)
           l0 == IF looksUp(rev) THEN <<"gh pr view">> ELSE <<>>
       IN IF looksUp(rev) /\ b \in prs
          THEN /\ log' = log \o l0 \o <<"PR already exists", "Done.">>
               /\ outcome' = "succeeded"
               /\ pc' = stepAfter("openPR")
               /\ UNCHANGED <<prs, prCreated, err>>
          ELSE IF createAccepted(b)
          THEN /\ log' = log \o l0 \o <<"gh pr create", "Done.">>
               /\ prs' = prs \cup {b}
               /\ prCreated' = [prCreated EXCEPT ![b] = @ + 1]
               /\ outcome' = "succeeded"
               /\ pc' = stepAfter("openPR")
               /\ UNCHANGED err
          ELSE /\ log' = log \o l0 \o <<"gh pr create">>
               /\ Throw("CommandFailed", FALSE)
               /\ UNCHANGED <<prs, prCreated>>
    /\ UNCHANGED <<rev, env, k, ok, issueNumber, base, tree, writes, testOutput,
                   response, head, remote, runs>>

\* the script is invoked again, on a fresh checkout of the default branch
Restart ==
    /\ pc = "done"
    /\ runs < MaxRuns
    /\ runs' = runs + 1
    /\ env' \in Envs
    /\ tree' = base
    /\ pc' = "main"
    /\ k' = 0
    /\ ok' = FALSE
    /\ issueNumber' = 0
    /\ log' = <<>>
    /\ writes' = <<>>
    /\ testOutput' = NoOutput
    /\ response' = <<>>
    /\ head' = NoCommit
    /\ outcome' = "running"
    /\ err' = [kind |-> "none", carriesRaw |-> FALSE]
    /\ UNCHANGED <<rev, base, remote, prs, prCreated>>

Next ==
    \/ SelectIssue
    \/ EnsureTestsFirst
    \/ AttemptFix
    \/ TestsPass
    \/ Capture
    \/ CallClaude
    \/ Apply
    \/ CreateBranchAndCommit
    \/ OpenPR
    \/ Restart

Spec == Init /\ [][Next]_vars

(***************************************************************************)
(* Vocabulary of the properties                                            *)
(***************************************************************************)
Count(l, e) == Cardinality({i \in 1..Len(l) : l[i] = e})
Has(l, e) == \E i \in 1..Len(l) : l[i] = e

TestEvents == {"testsPass:true", "testsPass:false"}
StrategyEvents == {"attemptFix", "runCapture", "readRepoContext", "callClaude",
                   "applyFixedFiles", "applyUnifiedDiff"}
ModelEvents == {"callClaude", "applyFixedFiles", "applyUnifiedDiff"}
PublishEvents == {"git checkout branch", "git add -A", "git commit", "git push",
                  "gh pr view", "gh pr create"}

\* the position in the log where ensureTestsFirst returned, 0 if it has not
ScaffoldedAt ==
    IF Has(log, "ensureTestsFirst:return")
    THEN CHOOSE i \in 1..Len(log) : log[i] = "ensureTestsFirst:return"
    ELSE 0

\* C1: once testsPass returns pass, no strategy is invoked any more and the
\* next call is the first call of the publish step; when the first test run
\* passes, the run makes no model-backed repair call at all.
C1_PassGoesStraightToPublish ==
    \A i \in 1..Len(log) :
        log[i] = "testsPass:true" =>
            /\ \A j \in (i + 1)..Len(log) : log[j] \notin (StrategyEvents \cup TestEvents)
            /\ i < Len(log) => log[i + 1] = "git checkout branch"
            /\ i = Len(log) => pc = "publish"
            /\ (\A j \in 1..(i - 1) : log[j] \notin TestEvents) =>
                   \A j \in (ScaffoldedAt + 1)..Len(log) : log[j] \notin ModelEvents

C1_Witness ==
    /\ rev = "p0"
    /\ outcome = "succeeded"
    /\ Count(log, "testsPass:false") = 1
    /\ Count(log, "callClaude") = 1

\* C2: when the test run failed after each of the K attempts, main() has
\* ended by throwing and has made no publish call; nothing was pushed and
\* no pull request was created by this invocation.
C2_ExhaustedPublishesNothing ==
    Count(log, "testsPass:false") >= (IF rev = "p1" THEN 2 ELSE 3) =>
        /\ pc = "done"
        /\ outcome = "threw"
        /\ err.kind = "Exhausted"
        /\ \A i \in 1..Len(log) : log[i] \notin PublishEvents
        /\ \A b \in IssueIds : remote[b].commit # runs

C2_Witness ==
    /\ rev = "p1"
    /\ Count(log, "testsPass:false") = 2
    /\ Count(log, "attemptFix") = 2
    /\ err.kind = "Exhausted"

\* C3 (as claimed): for every branch at most one gh pr create succeeds, gh
\* pr create is issued only right after a lookup that found no pull request,
\* and openPR does not fail when the pull request exists.
C3_CreateOnlyAfterEmptyLookup ==
    /\ \A b \in IssueIds : prCreated[b] <= 1
    /\ \A i \in 1..Len(log) :
          log[i] = "gh pr create" => (i > 1 /\ log[i - 1] = "gh pr view")
    /\ (outcome = "threw" /\ Has(log, "gh pr create")) =>
          branchName(issueNumber) \notin prs

\* C4: ensureTestsFirst has returned, with all its files written, before the
\* first heuristic call, the first test run and any later strategy call.
C4_ScaffoldBeforeAttempts ==
    /\ \A i \in 1..Len(log) :
          log[i] \in ((StrategyEvents \cup TestEvents) \ {"callClaude"}) =>
              (ScaffoldedAt # 0 /\ ScaffoldedAt < i)
    /\ \A i, j \in 1..Len(writes) :
          (writes[i].by = "ensureTestsFirst" /\ writes[j].by # "ensureTestsFirst")
              => i < j
    /\ pc \in {"attempt", "test", "capture", "call", "apply"} => ScaffoldedAt # 0

C4_Witness ==
    /\ rev = "p0"
    /\ \E i \in 1..Len(writes) :
          writes[i].by = "ensureTestsFirst" /\ writes[i].path = TestPath(testFileOf(int_js))
    /\ Has(log, "attemptFix")
    /\ Has(log, "testsPass:false")

\* C10 (as claimed): a model-backed attempt writes only to paths that were in
\* the working tree before it (the default branch's files and the files the
\* scaffolder wrote), so it creates no file.
C10_AttemptCreatesNoFile ==
    \A i \in 1..Len(writes) :
        writes[i].by \in {"callClaude", "apply"} =>
            writes[i].path \in ((DOMAIN base) \cup
                {writes[j].path : j \in {l \in 1..(i - 1) :
                                           writes[l].by = "ensureTestsFirst"}})

(***************************************************************************)
(* The heuristic on every content of test/utils.js up to MaxLen tokens:    *)
(* main() from the first call of attemptFixFromIssueText to the end of     *)
(* the heuristic attempts.                                                 *)
(***************************************************************************)
InTok == Tok \ {"M", "}"}

SelectedLog ==
    <<"readIssue", "git fetch origin", "git checkout main", "git pull">>

InitHeur ==
    /\ rev \in Revs
    /\ env \in [ISSUE_NUMBER : {1}, labelled : {<<>>}, apiKey : {TRUE},
                issueText : IssueTexts]
    /\ \E src \in SeqsUpTo(InTok, MaxLen) :
          base = [p \in {target, testPath, packagePath} |->
                     IF p = target THEN src ELSE <<"x", "\n">>]
    /\ tree = base
    /\ pc = "attempt"
    /\ k = 1
    /\ ok = FALSE
    /\ issueNumber = 1
    /\ log = SelectedLog \o
             <<IF rev = "p0" THEN "All source files already have tests."
                             ELSE "Tests already exist.",
               "ensureTestsFirst:return">>
    /\ writes = <<>>
    /\ testOutput = NoOutput
    /\ response = <<>>
    /\ head = [commit |-> 0, tree |-> base]
    /\ remote = [i \in IssueIds |-> NoCommit]
    /\ prs = {}
    /\ prCreated = [i \in IssueIds |-> 0]
    /\ outcome = "running"
    /\ err = [kind |-> "none", carriesRaw |-> FALSE]
    /\ runs = 1

NextHeur ==
    \/ AttemptFix
    \/ TestsPass

SpecHeur == InitHeur /\ [][NextHeur]_vars

\* the lines of a text with their line endings kept
RECURSIVE LinesWithEol(_)
LinesWithEol(src) ==
    LET i == IndexOf(src, <<"\n">>) IN
    IF i = 0 THEN <<[text |-> src, eol |-> "none"]>>
    ELSE LET crlf == i > 1 /\ src[i - 1] = "\r"
         IN <<[text |-> SubSeq(src, 1, IF crlf THEN i - 2 ELSE i - 1),
               eol |-> IF crlf THEN "CRLF" ELSE "LF"]>>
            \o LinesWithEol(SubSeq(src, i + 1, Len(src)))

\* a line of the text holds both `export function sub` and `return a + b`
HasSignatureLine(src) ==
    \E i, j \in 1..Len(src) :
        /\ src[i] = "S"
        /\ src[j] = "P"
        /\ \A l \in (IF i < j THEN i ELSE j)..(IF i < j THEN j ELSE i) : src[l] # "\n"

\* the text holds `export function sub (a, b) { return a + b ; }`, white
\* space between the parts allowed
HasSignatureRegex(src) ==
    \E a, b, c, d \in 1..Len(src) :
        /\ a < b /\ b < c /\ c < d
        /\ src[a] = "S" /\ src[b] = "A" /\ src[c] = "P" /\ src[d] = "E"
        /\ \A l \in (a + 1)..(d - 1) : l \in {b, c} \/ src[l] \in Ws

HasSignature(r, src) ==
    IF r = "p1" THEN HasSignatureRegex(src) ELSE HasSignatureLine(src)

\* C6 (as claimed): the file the line-based heuristic writes back has the
\* lines of the original, each with the original's line ending, and differs
\* from it only in lines that held the signature.
C6_OnlyMatchedLinesChange ==
    (rev \in {"agent", "p0"} /\ Len(writes) >= 1 /\ writes[1].by = "attemptFix") =>
        LET old == LinesWithEol(base[target])
            new == LinesWithEol(writes[1].content)
        IN /\ Len(new) = Len(old)
           /\ \A i \in 1..Len(old) :
                 /\ new[i].eol = old[i].eol
                 /\ new[i].text # old[i].text => LineMatches(old[i].text)

\* C7: on an existing test/utils.js without the signature the heuristic
\* writes nothing and logs no-change, main() goes on to the test run, and a
\* failing test run escalates to the next strategy.
C7_NoSignatureNoWrite ==
    (Has(log, "attemptFix") /\ existsSync(base, target)
        /\ ~HasSignature(rev, base[target])) =>
        /\ writes = <<>>
        /\ tree = base
        /\ outcome = "threw" => err.kind = "Exhausted"
        /\ \A i \in 1..Len(log) :
              log[i] = "attemptFix" =>
                 /\ i < Len(log) /\ log[i + 1] = "no-change"
                 /\ IF i + 1 = Len(log) THEN pc = "test"
                    ELSE log[i + 2] \in TestEvents
        /\ \A i \in 1..Len(log) :
              (log[i] = "testsPass:false" /\ Count(SubSeq(log, 1, i), "testsPass:false") = 1)
                 => IF i = Len(log) THEN pc = (IF rev = "p1" THEN "attempt" ELSE "capture")
                    ELSE log[i + 1] \in {"attemptFix", "runCapture"}

C7_Witness ==
    /\ ~HasSignature(rev, base[target])
    /\ Includes(base[target], <<"S">>)
    /\ Includes(base[target], <<"P">>)
    /\ rev = "agent"
    /\ pc = "capture"
    /\ Has(log, "no-change")

(***************************************************************************)
(* ensureTestsFirst on every test/ directory of at most MaxFiles files     *)
(* whose names are `utils` followed by at most MaxExt extensions, called   *)
(* twice in a row.                                                         *)
(***************************************************************************)
utils == <<"u", "t", "i", "l", "s">>
Exts == {Ext_js, <<".", "t", "e", "s", "t">>, <<".", "j", "s", "o", "n">>}

RECURSIVE Concat(_)
Concat(ss) == IF Len(ss) = 0 THEN <<>> ELSE Head(ss) \o Concat(Tail(ss))

Names == {utils \o Concat(es) : es \in SeqsUpTo(Exts, MaxExt)}

Dirs == {d \in SUBSET Names : Cardinality(d) <= MaxFiles}

InitScaffold ==
    /\ rev \in Revs
    /\ \E key \in BOOLEAN :
          env = [ISSUE_NUMBER |-> 1, labelled |-> <<>>, apiKey |-> key,
                 issueText |-> "t1"]
    /\ \E d \in Dirs :
          base = [p \in {TestPath(n) : n \in d} \cup {packagePath} |-> <<"x", "\n">>]
    /\ tree = base
    /\ pc = "ensureTests"
    /\ k = 0
    /\ ok = FALSE
    /\ issueNumber = 1
    /\ log = SelectedLog
    /\ writes = <<>>
    /\ testOutput = NoOutput
    /\ response = <<>>
    /\ head = [commit |-> 0, tree |-> base]
    /\ remote = [i \in IssueIds |-> NoCommit]
    /\ prs = {}
    /\ prCreated = [i \in IssueIds |-> 0]
    /\ outcome = "running"
    /\ err = [kind |-> "none", carriesRaw |-> FALSE]
    /\ runs = 1

\* ensureTestsFirst(...) called once more, right after it returned
EnsureTestsFirstAgain ==
    /\ pc = "attempt"
    /\ k = 1
    /\ \E order \in Listings(missingTests(tree)),
          n \in 0..Cardinality(missingTests(tree)) :
         LET r == IF rev = "p0"
                  THEN ensureTestsGenerated(tree, order, n, env.apiKey)
                  ELSE ensureTestsFixed(tree)
         IN /\ tree' = r.tree
            /\ writes' = writes \o Tag(r.writes, "ensureTestsFirst:again")
            /\ log' = log \o <<"ensureTestsFirst:again">> \o r.log
            /\ k' = 2
    /\ UNCHANGED <<rev, env, pc, ok, issueNumber, base, testOutput, response,
                   head, remote, prs, prCreated, outcome, err, runs>>

NextScaffold ==
    \/ EnsureTestsFirst
    \/ EnsureTestsFirstAgain

SpecScaffold == InitScaffold /\ [][NextScaffold]_vars

\* X.test.js for a name X.js
TestNameOf(f) == SubSeq(f, 1, Len(f) - Len(Ext_js)) \o Ext_test_js

\* every source unit of the tree has a test unit
AllTestsPresent(r, t) ==
    IF r = "p0"
    THEN \A f \in readdirSync(t) :
            (EndsWith(f, Ext_js) /\ ~EndsWith(f, Ext_test_js))
                => existsSync(t, TestPath(TestNameOf(f)))
    ELSE existsSync(t, testPath)

\* C5 (as claimed): ensureTestsFirst writes to no file of test/ that exists;
\* with every test unit present it writes nothing and calls no model; a
\* second call right after the first writes nothing.
C5_ScaffoldIdempotent ==
    /\ \A i \in 1..Len(writes) :
          writes[i].path.dir = "test" => writes[i].path \notin DOMAIN base
    /\ (AllTestsPresent(rev, base) /\ pc # "ensureTests") =>
          (writes = <<>> /\ ~Has(log, "callClaude"))
    /\ \A i \in 1..Len(writes) : writes[i].by # "ensureTestsFirst:again"

(***************************************************************************)
(* The model-backed apply step on every response of at most MaxResp items  *)
(* of the full-file shape, or MaxDiff items of the diff shape: main() at   *)
(* the call of applyFixedFiles / applyUnifiedDiff in the second attempt.   *)
(***************************************************************************)
BlockItems == {Hdr(target), Hdr(testPath), Hdr(TestPath(new_js)), Text(<<"x">>), End}
DiffItems == {Open, Close, Text(<<"x">>), Hunk(target, TRUE, Fixed),
              Hunk(testPath, FALSE, <<"x">>), NewFile(TestPath(new_js), <<"x">>)}

InitApply ==
    /\ rev \in {"agent", "p0"}
    /\ env = [ISSUE_NUMBER |-> 1, labelled |-> <<>>, apiKey |-> TRUE,
              issueText |-> "t1"]
    /\ base = [p \in {target, testPath, packagePath} |-> <<"x", "\n">>]
    /\ tree = Put(base, payloadPath, Payload)
    /\ response \in SeqsUpTo(BlockItems, MaxResp) \cup SeqsUpTo(DiffItems, MaxDiff)
    /\ response # <<>>
    /\ pc = "apply"
    /\ k = 2
    /\ ok = FALSE
    /\ issueNumber = 1
    /\ log = SelectedLog \o
             <<IF rev = "p0" THEN "All source files already have tests."
                             ELSE "Tests already exist.",
               "ensureTestsFirst:return", "attemptFix", "no-change",
               "testsPass:false", "runCapture", "readRepoContext", "callClaude">>
    /\ writes = Tag(<<[path |-> payloadPath, content |-> Payload]>>, "callClaude")
    /\ testOutput = [passed |-> FALSE, at |-> 0, context |-> readRepoContext(rev, base)]
    /\ head = [commit |-> 0, tree |-> base]
    /\ remote = [i \in IssueIds |-> NoCommit]
    /\ prs = {}
    /\ prCreated = [i \in IssueIds |-> 0]
    /\ outcome = "running"
    /\ err = [kind |-> "none", carriesRaw |-> FALSE]
    /\ runs = 1

NextApply == Apply

SpecApply == InitApply /\ [][NextApply]_vars

\* the writes the apply step made
ApplyWrites == SelectSeq(writes, LAMBDA w : w.by = "apply")

\* the response is a sequence of blocks: header, text, end marker
RECURSIVE WellFormedBlocks(_)
WellFormedBlocks(resp) ==
    \/ Len(resp) = 0
    \/ /\ Len(resp) >= 2
       /\ resp[1].kind = "hdr"
       /\ \/ resp[2].kind = "end" /\ WellFormedBlocks(SubSeq(resp, 3, Len(resp)))
          \/ /\ Len(resp) >= 3
             /\ resp[2].kind = "text"
             /\ resp[3].kind = "end"
             /\ WellFormedBlocks(SubSeq(resp, 4, Len(resp)))

\* the headers of the response, in order
HeaderPositions(resp) == {i \in 1..Len(resp) : resp[i].kind = "hdr"}
ContentAfter(resp, i) == IF resp[i + 1].kind = "text" THEN resp[i + 1].text ELSE <<>>

\* C8: applyFixedFiles on a response of several blocks writes nothing for a
\* block whose path is not in the working tree and logs each such skip, and
\* writes every block whose path is there, content and a line feed, in the
\* order of the response.
C8_UnknownSkippedOthersWritten ==
    (rev = "p0" /\ pc # "apply" /\ WellFormedBlocks(response)) =>
        LET known == {i \in HeaderPositions(response) :
                          existsSync(base, response[i].path)}
            unknown == HeaderPositions(response) \ known
            w == ApplyWrites
        IN /\ Len(w) = Cardinality(known)
           /\ \A i \in known :
                 LET n == Cardinality({j \in known : j <= i})
                 IN /\ w[n].path = response[i].path
                    /\ w[n].content = ContentAfter(response, i) \o <<"\n">>
           /\ \A i \in unknown :
                 /\ ~existsSync(tree, response[i].path)
                 /\ \A n \in 1..Len(w) : w[n].path # response[i].path
           /\ Count(log, "Skipping unknown file") = Cardinality(unknown)
           /\ Count(log, "Rewrote") = Cardinality(known)

C8_Witness ==
    /\ rev = "p0"
    /\ pc = "test"
    /\ response = <<Hdr(TestPath(new_js)), Text(<<"x">>), End,
                    Hdr(target), Text(<<"x">>), End>>
    /\ Len(ApplyWrites) = 1

\* the response holds no occurrence of the shape the revision accepts
NoAcceptedShape(r, resp) ==
    IF r = "p0"
    THEN \A i \in 1..Len(resp) : \A j \in (i + 1)..Len(resp) :
            ~(resp[i].kind = "hdr" /\ resp[j].kind = "end")
    ELSE \A i \in 1..Len(resp) : \A j \in (i + 1)..Len(resp) :
            ~(resp[i].kind = "open" /\ resp[j].kind = "close")

\* C9 (as claimed): a response without an accepted shape (no block for
\* applyFixedFiles, no fenced diff for applyUnifiedDiff) ends the apply step
\* with a parse failure that carries the response, and no file is written.
C9_NoShapeIsParseFailure ==
    (pc # "apply" /\ Has(log, IF rev = "p0" THEN "applyFixedFiles" ELSE "applyUnifiedDiff")
        /\ NoAcceptedShape(rev, response)) =>
        /\ outcome = "threw"
        /\ err.kind = "ParseError"
        /\ err.carriesRaw
        /\ ApplyWrites = <<>>

(***************************************************************************)
(* C11: applyUnifiedDiff and hunks that do not match                       *)
(***************************************************************************)
\* the diffs of the patch that git apply cannot apply to the tree t
Mismatched(t, patch) ==
    {i \in 1..Len(patch) :
        /\ IsDiff(patch[i])
        /\ IF patch[i].kind = "newfile" THEN existsSync(t, patch[i].path)
           ELSE ~(existsSync(t, patch[i].path) /\ patch[i].flag)}

DiffTargets(patch) == {patch[i].path : i \in {j \in 1..Len(patch) : IsDiff(patch[j])}}

\* C11 (as claimed): when a hunk of the diff does not match its context,
\* applyUnifiedDiff fails with an error and no target file of the diff has
\* been modified: no hunk is applied while another is rejected.
C11_DiffAllOrNothing ==
    (rev = "agent" /\ pc # "apply"
        /\ Mismatched(Put(base, payloadPath, Payload), ExtractPatch(response)) # {}) =>
        /\ outcome = "threw"
        /\ err.kind = "CommandFailed"
        /\ \A p \in DiffTargets(ExtractPatch(response)) :
              /\ existsSync(tree, p) = existsSync(base, p)
              /\ existsSync(base, p) => tree[p] = base[p]

(***************************************************************************)
(* C12: errors raised inside a model-backed attempt                        *)
(***************************************************************************)
\* the errors callClaude, applyFixedFiles and applyUnifiedDiff raise
AttemptErrors == {"MissingEnv", "ApiError", "ParseError", "CommandFailed"}

\* main() ended by an error raised inside a model-backed attempt: after the
\* scaffolder returned and before any call of the publish step
ThrewInsideAttempt ==
    /\ outcome = "threw"
    /\ err.kind \in AttemptErrors
    /\ ScaffoldedAt # 0
    /\ \A i \in 1..Len(log) : log[i] \notin PublishEvents

\* C12 (as claimed): an error raised inside attempt k < K (a parse or apply
\* failure, or a failed model call) aborts only that attempt, so the
\* invocation never ends at such an error: it can end by one only in the
\* last attempt, k = K.
C12_FatalAbortsOnlyAttempt ==
    ThrewInsideAttempt => k >= AttemptBudget(rev)

(***************************************************************************)
(* C13: what the request of a model-backed attempt is built from           *)
(***************************************************************************)
\* C13: when main() calls callClaude in a model-backed attempt, the test
\* output and the snapshot in the request were taken by the runCapture and
\* readRepoContext calls just before it: after every write made so far (all
\* writes of the attempt before), with no write since, the snapshot being
\* the working tree as it is; the writes of the attempt itself come later;
\* and the capture handed to the second model-backed attempt was taken after
\* the first request had been written, so it is never that of the first.
C13_RequestUsesFreshCapture ==
    /\ pc = "call" =>
          /\ testOutput.at = Len(writes)
          /\ testOutput.context = readRepoContext(rev, tree)
          /\ Len(log) >= 2
          /\ log[Len(log) - 1] = "runCapture"
          /\ log[Len(log)] = "readRepoContext"
    /\ (pc = "call" /\ k = 3) =>
          \E i \in 1..testOutput.at : writes[i].by = "callClaude"
    /\ testOutput # NoOutput =>
          \A i \in 1..Len(writes) :
              /\ writes[i].by \in {"ensureTestsFirst", "attemptFix"} => i <= testOutput.at
              /\ i > testOutput.at => writes[i].by \in {"callClaude", "apply"}

C13_Witness ==
    /\ rev = "p0"
    /\ pc = "call"
    /\ k = 3
    /\ \E i \in 1..Len(writes) : writes[i].by = "apply" /\ writes[i].path = target
    /\ testOutput.context[target] = Fixed \o <<"\n">>

(***************************************************************************)
(* C14: the order of the strategies                                        *)
(***************************************************************************)
\* the positions of the log after position s, where the scaffolder returned
After(s) == IF s = 0 THEN {} ELSE (s + 1)..Len(log)

ApplyEvents == {"applyFixedFiles", "applyUnifiedDiff"}

\* C14: in every run the first call after the scaffolder is the heuristic;
\* each model-backed attempt is the calls runCapture, readRepoContext,
\* callClaude and the apply function in that order, begun only when the
\* heuristic has run and the test run just before it failed; a run makes at
\* most two model-backed repair calls; and between the starts of two
\* attempts there is always the failed test run that ends the first, so no
\* two attempts overlap.
C14_FixedStrategyOrder ==
    LET s == ScaffoldedAt
        A == After(s)
        starts == {i \in A : log[i] \in {"attemptFix", "runCapture"}}
    IN /\ (s # 0 /\ Len(log) > s) => log[s + 1] = "attemptFix"
       /\ \A i \in A :
             /\ log[i] = "runCapture" => (i > s + 1 /\ log[i - 1] = "testsPass:false")
             /\ log[i] = "readRepoContext" => log[i - 1] = "runCapture"
             /\ log[i] = "callClaude" => log[i - 1] = "readRepoContext"
             /\ log[i] \in ApplyEvents => log[i - 1] = "callClaude"
       /\ Cardinality({i \in A : log[i] = "callClaude"}) <= 2
       /\ Cardinality({i \in A : log[i] \in ApplyEvents}) <= 2
       /\ \A i \in starts : \A j \in starts :
             i < j => \E l \in (i + 1)..(j - 1) : log[l] = "testsPass:false"
       /\ Cardinality(starts) <= AttemptBudget(rev)

C14_Witness ==
    /\ rev = "agent"
    /\ Cardinality({i \in After(ScaffoldedAt) : log[i] = "callClaude"}) = 2
    /\ Count(log, "applyUnifiedDiff") = 2
    /\ Count(log, "attemptFix") = 1
    /\ outcome = "succeeded"

(***************************************************************************)
(* C15: the push of createBranchAndCommit                                  *)
(***************************************************************************)
\* C15 (as claimed): in every revision the push of createBranchAndCommit is
\* a force push protected by a lease, never a plain push; the branch not
\* having moved since this run fetched it, the push is accepted and main()
\* does not end at it.
C15_PushIsLeaseProtected ==
    /\ Has(log, "git push") => pushMode(rev) = "force-with-lease"
    /\ (Len(log) > 0 /\ log[Len(log)] = "git push") => outcome # "threw"

(***************************************************************************)
(* C16: a second invocation for the same issue                             *)
(***************************************************************************)
\* C16 (as claimed): when the script is invoked again for an issue whose
\* branch was pushed and whose pull request was opened by an earlier
\* invocation, and reaches createBranchAndCommit, the checkout, the commit
\* and the push all complete and the remote branch of that issue holds what
\* this run pushed; no other branch receives anything from this run.
C16_RerunUpdatesSameBranch ==
    LET b == branchName(issueNumber) IN
    (runs >= 2 /\ issueNumber # 0 /\ b \in prs /\ Has(log, "git checkout branch")) =>
        /\ Has(log, "git push")
        /\ remote[b] = head
        /\ ~(outcome = "threw" /\ log[Len(log)] \in {"git commit", "git push"})
        /\ \A c \in IssueIds \ {issueNumber} : remote[c].commit # runs

(***************************************************************************)
(* C17, C18: the choice of the issue                                       *)
(***************************************************************************)
\* C17: with ISSUE_NUMBER not set and an empty result of the label scan,
\* main() logs that there is no issue and returns without an error: it has
\* made the scan and nothing else, no git command, no scaffolding, no
\* attempt, no test run, no publish call, no file written, and no branch or
\* pull request comes from this run.
C17_NoIssueIsSilentSuccess ==
    (env.ISSUE_NUMBER = 0 /\ env.labelled = <<>> /\ pc # "main") =>
        /\ pc = "done"
        /\ outcome = "noIssuesFound"
        /\ err.kind = "none"
        /\ log = <<"listOpenLabeledIssues", "No open issues">>
        /\ writes = <<>>
        /\ tree = base
        /\ head = NoCommit
        /\ issueNumber = 0
        /\ \A b \in IssueIds : remote[b].commit # runs

C17_Witness ==
    /\ runs = 2
    /\ env.ISSUE_NUMBER = 0
    /\ env.labelled = <<>>
    /\ outcome = "noIssuesFound"
    /\ remote[1].commit = 1
    /\ prs = {1}

\* the issues the run has acted on: the one it read, the branches that hold
\* a commit of this run
Touched == {b \in IssueIds : b = issueNumber \/ remote[b].commit = runs}

\* within one invocation only the state of issue i changes at origin
OnlyTouches(i) ==
    \A c \in IssueIds :
        (remote'[c] # remote[c] \/ prCreated'[c] # prCreated[c]
            \/ (c \in prs') # (c \in prs)) => c = i

\* C18: an invocation works on one issue. With ISSUE_NUMBER set it is that
\* issue and listOpenLabeledIssues is not called; otherwise it is the first
\* issue of the scan. One issue is read, and no step changes the branch or
\* the pull request of another issue.
C18_OneIssuePerInvocation ==
    /\ [](/\ Count(log, "readIssue") <= 1
          /\ Count(log, "listOpenLabeledIssues") <= 1
          /\ env.ISSUE_NUMBER # 0 => ~Has(log, "listOpenLabeledIssues")
          /\ (env.ISSUE_NUMBER # 0 /\ pc # "main") => issueNumber = env.ISSUE_NUMBER
          /\ (env.ISSUE_NUMBER = 0 /\ pc # "main" /\ env.labelled # <<>>) =>
                /\ issueNumber = env.labelled[1]
                /\ Has(log, "listOpenLabeledIssues")
          /\ Has(log, "readIssue") <=> issueNumber # 0
          /\ Touched \subseteq {issueNumber})
    /\ [][OnlyTouches(issueNumber)]_vars

C18_Witness ==
    /\ env.ISSUE_NUMBER = 0
    /\ env.labelled = <<2, 1>>
    /\ issueNumber = 2
    /\ outcome = "succeeded"
    /\ remote[2].commit = runs
    /\ remote[1] = NoCommit
    /\ prs = {2}

(***************************************************************************)
(* C19, C20: configuration errors                                          *)
(***************************************************************************)
\* C19: without ANTHROPIC_API_KEY a call of callClaude throws at requireEnv:
\* the payload file is never written, no request is made (no answer and no
\* API error comes back), main() ends at that first call with the error and
\* calls callClaude no second time. A run that calls callClaude nowhere never
\* sees the error.
C19_MissingKeyFailsBeforeRequest ==
    ~env.apiKey =>
        /\ \A i \in 1..Len(writes) : writes[i].path # payloadPath
        /\ ~existsSync(tree, payloadPath)
        /\ response = <<>>
        /\ err.kind # "ApiError"
        /\ ~Has(log, "Tests written")
        /\ Count(log, "callClaude") <= 1
        /\ Has(log, "callClaude") =>
              /\ pc = "done"
              /\ outcome = "threw"
              /\ err.kind = "MissingEnv"
        /\ err.kind = "MissingEnv" => Has(log, "callClaude")

C19_Witness ==
    /\ ~env.apiKey
    /\ rev = "agent"
    /\ err.kind = "MissingEnv"
    /\ Count(log, "testsPass:false") = 1
    /\ log[Len(log)] = "callClaude"

\* C20: when test/utils.js is missing, the first call of
\* attemptFixFromIssueText throws and main() ends there with that error: the
\* heuristic is called once and writes nothing, and the run has no test run,
\* no capture, no model-backed repair call, no apply and no publish call.
C20_MissingTargetEndsRun ==
    /\ (~existsSync(tree, target) /\ Has(log, "attemptFix")) =>
          /\ pc = "done"
          /\ outcome = "threw"
          /\ err.kind = "MissingFile"
          /\ Count(log, "attemptFix") = 1
          /\ log[Len(log)] = "attemptFix"
          /\ \A i \in 1..Len(log) :
                log[i] \notin (TestEvents \cup PublishEvents \cup ApplyEvents
                                 \cup {"runCapture", "readRepoContext"})
          /\ \A i \in After(ScaffoldedAt) : log[i] # "callClaude"
          /\ \A i \in 1..Len(writes) : writes[i].by = "ensureTestsFirst"
          /\ \A b \in IssueIds : remote[b].commit # runs
    /\ err.kind = "MissingFile" => ~existsSync(tree, target)

C20_Witness ==
    /\ rev = "p0"
    /\ ~existsSync(base, target)
    /\ err.kind = "MissingFile"
    /\ Has(log, "Tests written")
    /\ log[Len(log)] = "attemptFix"

(***************************************************************************)
(* C21: the outcome of an invocation                                       *)
(***************************************************************************)
\* C21 (as claimed): an invocation that has ended has exactly one of three
\* outcomes: succeeded, with the branch pushed and its pull request there;
\* noIssuesFound; or failed, which is the attempt budget used up with no
\* passing test run. It never ends otherwise.
C21_OneOfThreeOutcomes ==
    pc = "done" =>
        LET b == branchName(issueNumber)
            succeeded == /\ outcome = "succeeded"
                         /\ remote[b] = head
                         /\ b \in prs
            none == outcome = "noIssuesFound" /\ issueNumber = 0
            failed == /\ outcome = "threw"
                      /\ err.kind = "Exhausted"
                      /\ ~Has(log, "testsPass:true")
                      /\ Count(log, "testsPass:false") = AttemptBudget(rev)
        IN /\ succeeded \/ none \/ failed
           /\ ~(succeeded /\ none) /\ ~(succeeded /\ failed) /\ ~(none /\ failed)

\* C21 (amended): an invocation that has ended has exactly one outcome:
\* succeeded, with the branch pushed, its pull request there and no error;
\* noIssuesFound, with no issue chosen and no error; or ended by an uncaught
\* error, which is the budget used up after K failed test runs or one of the
\* errors of the scaffolder, the heuristic, a model-backed attempt or the
\* publish step. Until it ends it has none.
C21_OneOutcomePerInvocation ==
    LET b == branchName(issueNumber)
        succeeded == /\ outcome = "succeeded"
                     /\ err.kind = "none"
                     /\ remote[b] = head
                     /\ b \in prs
                     /\ log[Len(log)] = "Done."
        none == /\ outcome = "noIssuesFound"
                /\ err.kind = "none"
                /\ issueNumber = 0
        threw == /\ outcome = "threw"
                 /\ err.kind \in (AttemptErrors \cup {"Exhausted", "MissingFile"})
                 /\ ~Has(log, "Done.")
                 /\ err.kind = "Exhausted" <=>
                       (/\ ~Has(log, "testsPass:true")
                        /\ Count(log, "testsPass:false") = AttemptBudget(rev))
    IN /\ pc = "done" =>
             /\ succeeded \/ none \/ threw
             /\ ~(succeeded /\ none) /\ ~(succeeded /\ threw) /\ ~(none /\ threw)
       /\ pc # "done" => (outcome = "running" /\ err.kind = "none")

C21_Witness ==
    /\ pc = "done"
    /\ rev = "agent"
    /\ runs = 2
    /\ outcome = "threw"
    /\ err.kind = "CommandFailed"
    /\ Has(log, "testsPass:true")
    /\ log[Len(log)] = "git push"

(***************************************************************************)
(* C22: the run that the first model-backed attempt repairs                *)
(***************************************************************************)
\* the heuristic found nothing to change, the first test run failed, the
\* first model-backed attempt was applied and the test run after it passed;
\* the branch had no pull request before, and main() has ended
RepairedByFirstModelAttempt ==
    /\ pc = "done"
    /\ Has(log, "no-change")
    /\ Count(log, "testsPass:false") = 1
    /\ Count(log, "testsPass:true") = 1
    /\ \E i \in 1..Len(log) : log[i] \in ApplyEvents
    /\ \/ branchName(issueNumber) \notin prs
       \/ (Has(log, "gh pr create") /\ outcome = "succeeded")

\* C22: such a run makes exactly one model-backed repair call, one call of
\* git commit, one push and one call of gh pr create; when the commit
\* command did not fail, the run ends as succeeded with the one commit of
\* this run on the branch.
C22_OneCommitPushCreate ==
    RepairedByFirstModelAttempt =>
        /\ Cardinality({i \in After(ScaffoldedAt) : log[i] = "callClaude"}) = 1
        /\ Cardinality({i \in 1..Len(log) : log[i] \in ApplyEvents}) = 1
        /\ Count(log, "attemptFix") = 1
        /\ Count(log, "git commit") = 1
        /\ Count(log, "git push") = 1
        /\ Count(log, "gh pr create") = 1
        /\ ~Has(log, "git commit:failed") =>
              /\ outcome = "succeeded"
              /\ head.commit = runs
              /\ remote[branchName(issueNumber)] = head

C22_Witness ==
    /\ RepairedByFirstModelAttempt
    /\ rev = "p0"
    /\ outcome = "succeeded"
    /\ tree[target] = Fixed \o <<"\n">>

(***************************************************************************)
(* C23: a git commit that fails                                            *)
(***************************************************************************)
\* the commit command of this run failed with nothing to commit / with
\* changes of the working tree left uncommitted
CommitFailedClean == Has(log, "git commit:failed") /\ tree = head.tree
CommitFailedDirty == Has(log, "git commit:failed") /\ tree # head.tree

\* C23 (as claimed): in agent.js and part_000 a commit that fails because
\* nothing changed raises no error and the push and the pull request step
\* still run; in every other case (another revision, or changes to commit)
\* a failing commit command ends the publish step there, before the push.
C23_CommitNoOpOnlyWhenClean ==
    /\ (rev # "p1" /\ CommitFailedClean) =>
          /\ Has(log, "git push")
          /\ err.kind = "CommandFailed" => log[Len(log)] # "git commit:failed"
          /\ log[Len(log)] = "git push" => (pc = "openPR" \/ outcome = "threw")
    /\ (CommitFailedDirty \/ (rev = "p1" /\ CommitFailedClean)) =>
          /\ outcome = "threw"
          /\ err.kind = "CommandFailed"
          /\ log[Len(log)] = "git commit:failed"
          /\ ~Has(log, "git push")

(***************************************************************************)
(* C24, C25: what is published                                             *)
(***************************************************************************)
\* the calls that write to the working tree or run the tests
WorkEvents ==
    StrategyEvents \cup TestEvents
        \cup {"ensureTestsFirst:return", "ensureTestsFirst:throw", "Tests written"}

\* C24: the first call of the publish step comes right after a test run
\* that passed, and from there on the run calls no scaffolder, no strategy
\* and no test run; the publish step is entered with ok true, and a branch
\* holds a commit of this run only if a test run of it passed. This holds
\* in every state, whatever error ends the run.
C24_PublishOnlyAfterPass ==
    LET P == {i \in 1..Len(log) : log[i] \in PublishEvents} IN
    /\ P # {} =>
          LET p == CHOOSE i \in P : \A j \in P : i <= j
          IN /\ p > 1
             /\ log[p - 1] = "testsPass:true"
             /\ \A l \in p..Len(log) : log[l] \notin WorkEvents
    /\ pc \in {"publish", "openPR"} =>
          (ok /\ Has(log, "testsPass:true"))
    /\ \A b \in IssueIds : remote[b].commit = runs => Has(log, "testsPass:true")
    /\ outcome = "succeeded" => ok

C24_Witness ==
    /\ rev = "p1"
    /\ outcome = "threw"
    /\ err.kind = "CommandFailed"
    /\ Count(log, "testsPass:false") = 1
    /\ Count(log, "attemptFix") = 2
    /\ log[Len(log)] = "git commit:failed"

\* an attempt of this run (the heuristic or a model-backed one) wrote a file
AttemptChangedTree ==
    \E i \in 1..Len(writes) : writes[i].by \in {"attemptFix", "callClaude", "apply"}

\* C25 (as claimed): when a run of agent.js or part_000 ends as succeeded
\* after an attempt changed the working tree, the branch at origin holds a
\* commit of this run whose tree is the working tree the last test run
\* passed on.
C25_PushedBranchHoldsTestedTree ==
    (rev # "p1" /\ outcome = "succeeded" /\ AttemptChangedTree) =>
        LET r == remote[branchName(issueNumber)]
        IN /\ r.commit = runs
           /\ r.tree = tree

(***************************************************************************)
(* C26: the test run whose output goes into the request                    *)
(***************************************************************************)
\* C26 (as claimed): the test output placed in the request of a model-backed
\* attempt is that of a failing run: the run of runCapture agrees with the
\* run of testsPass whose failure led to the attempt.
C26_CapturedRunFailed ==
    (testOutput # NoOutput /\ Has(log, "runCapture")) => ~testOutput.passed

====
